---- MODULE Spec2Model ----
(***************************************************************************)
(* A model of argo, a command-line argument parsing library (package argo, *)
(* argo.go).  A Go string is modelled as a sequence of one-character       *)
(* strings, so that prefix tests, cutset trimming and splitting are        *)
(* computed character by character, as the Go strings package does.        *)
(***************************************************************************)
EXTENDS Integers, Sequences, FiniteSets, TLC

VARIABLES
    registry,            \* Registry: base command name -> CommandRegistry
    nextRef,             \* next fresh address handed out by an allocation
    ret,                 \* what the last registration call returned
    args,                \* the caller's argument slice given to Parse
    pc,                  \* position of the Parse call
    formattedArguments,  \* Parse's local formattedArguments
    commands,            \* Parse's local commands (selected *Command)
    result,              \* what Parse returned
    tok,                 \* input of a token classifier
    out                  \* what the classifier returned

vars == <<registry, nextRef, ret, args, pc, formattedArguments, commands,
          result, tok, out>>

----------------------------------------------------------------------------
(* Bounds of the model. *)

\* longest argument vector given to Parse
MaxArgs == 3
\* addresses available to the allocations of the registration calls
MaxRefs == 8
\* longest Arg.Value the consume loop is followed to
MaxValueLen == 6
\* longest token given to a classifier
MaxTokLen == 6

----------------------------------------------------------------------------
(* The strings package, on sequences of characters. *)

Empty == <<>>

HasPrefix(s, p) ==
    /\ Len(s) >= Len(p)
    /\ SubSeq(s, 1, Len(p)) = p

HasSuffix(s, p) ==
    /\ Len(s) >= Len(p)
    /\ SubSeq(s, Len(s) - Len(p) + 1, Len(s)) = p

\* the set of characters of a cutset string
CharsOf(cutset) == {cutset[i] : i \in 1..Len(cutset)}

RECURSIVE TrimLeft(_, _)
TrimLeft(s, cutset) ==
    IF s # <<>> /\ Head(s) \in CharsOf(cutset)
    THEN TrimLeft(Tail(s), cutset)
    ELSE s

RECURSIVE TrimRight(_, _)
TrimRight(s, cutset) ==
    IF s # <<>> /\ s[Len(s)] \in CharsOf(cutset)
    THEN TrimRight(SubSeq(s, 1, Len(s) - 1), cutset)
    ELSE s

Trim(s, cutset) == TrimRight(TrimLeft(s, cutset), cutset)

\* strings.ReplaceAll(value, old, "") for a one-character old
ReplaceAllWithEmpty(s, old) == SelectSeq(s, LAMBDA c : c # old)

\* strings.Split(s, sep) for a one-character sep: the pieces between the
\* separators, empty pieces included
RECURSIVE SplitFrom(_, _, _)
SplitFrom(s, sep, piece) ==
    IF s = <<>> THEN <<piece>>
    ELSE IF Head(s) = sep
         THEN <<piece>> \o SplitFrom(Tail(s), sep, <<>>)
         ELSE SplitFrom(Tail(s), sep, Append(piece, Head(s)))

Split(s, sep) == SplitFrom(s, sep, <<>>)

removeWhitespaces(value) == ReplaceAllWithEmpty(value, " ")

trimWhitespaces(value) == Trim(value, <<" ">>)

----------------------------------------------------------------------------
(* Token classifiers. *)

isFlag(value) ==
    Len(value) >= 2 /\ Len(value) = 2 /\ ~HasPrefix(value, <<"-">>)

isShortFlag(value) ==
    isFlag(value) /\ Len(value) = 2 /\ ~HasPrefix(value, <<"-", "-">>)

\* (bool, string) results are records [ok, name]
isInvertedFlag(value) ==
    IF isFlag(value) /\ HasPrefix(value, <<"-", "-", "n", "o", "-">>)
    THEN [ok |-> TRUE, name |-> TrimLeft(value, <<"-", "-", "n", "o", "-">>)]
    ELSE [ok |-> FALSE, name |-> Empty]

\* isUnsupportedFlag without the test for a third dash
isUnsupportedFlagTwoDashes(value) ==
    IF Len(value) >= 2
    THEN IF Len(value) = 2
         THEN ~HasPrefix(value, <<"-">>) \/ HasPrefix(value, <<"-", "-">>)
         ELSE ~HasPrefix(value, <<"-", "-">>)
    ELSE FALSE

isUnsupportedFlag(value) ==
    IF Len(value) >= 2
    THEN IF Len(value) = 2
         THEN ~HasPrefix(value, <<"-">>) \/ HasPrefix(value, <<"-", "-">>)
         ELSE ~HasPrefix(value, <<"-", "-">>)
                \/ HasPrefix(value, <<"-", "-", "-">>)
    ELSE FALSE

isVariadicArg(value) ==
    IF ~isFlag(value) /\ HasSuffix(value, <<".", ".", ".">>)
    THEN [ok |-> TRUE, name |-> TrimRight(value, <<".", ".", ".">>)]
    ELSE [ok |-> FALSE, name |-> Empty]

\* the parts of a split flag value that are kept
RECURSIVE KeptParts(_)
KeptParts(parts) ==
    IF parts = <<>> THEN <<>>
    ELSE IF Trim(Head(parts), <<" ">>) # Empty
         THEN <<Head(parts)>> \o KeptParts(Tail(parts))
         ELSE KeptParts(Tail(parts))

RECURSIVE formatCommandValues(_)
formatCommandValues(values) ==
    IF values = <<>> THEN <<>>
    ELSE IF isFlag(Head(values))
         THEN KeptParts(Split(Head(values), "="))
                \o formatCommandValues(Tail(values))
         ELSE <<Head(values)>> \o formatCommandValues(Tail(values))

\* next returns the first element ("" for an empty slice) and the rest
next(slice) ==
    IF Len(slice) = 0
    THEN [val |-> Empty, newSlice |-> <<>>]
    ELSE [val |-> slice[1],
          newSlice |-> IF Len(slice) > 1 THEN Tail(slice) ELSE <<>>]

----------------------------------------------------------------------------
(* Go maps and pointers.  A map is a function on its key set; a pointer is *)
(* the address of the object it refers to, Nil the nil pointer.            *)

Nil == 0

EmptyMap == [k \in {} |-> Nil]

Put(m, k, v) == [x \in DOMAIN m \cup {k} |-> IF x = k THEN v ELSE m[x]]

Has(m, k) == k \in DOMAIN m

\* the value of ret before any registration call
NoRet == [op |-> "none", ptr |-> Nil, existed |-> FALSE]

----------------------------------------------------------------------------
(* Registration.  Each operator returns the registry after the call, the   *)
(* next free address and the returned (pointer, bool) pair.                *)

\* Registry.Register(name, version, desc)
RegisterOp(reg, ref, name, version, desc) ==
    LET commandName == removeWhitespaces(name) IN
    IF Has(reg, commandName)
    THEN [registry |-> reg, nextRef |-> ref,
          ret |-> [op |-> "Register", ptr |-> reg[commandName].ref,
                   existed |-> TRUE]]
    ELSE LET commandConfig == [ref |-> ref,
                               BaseCommand |-> commandName,
                               Version |-> version,
                               Description |-> desc,
                               Commands |-> EmptyMap]
         IN [registry |-> Put(reg, commandName, commandConfig),
             nextRef |-> ref + 1,
             ret |-> [op |-> "Register", ptr |-> ref, existed |-> FALSE]]

\* a Command the caller built with empty maps and no arguments
NewCommand(ref, name) ==
    [ref |-> ref, Name |-> name, Flags |-> EmptyMap,
     shorthandFlags |-> EmptyMap, Args |-> EmptyMap, ArgNames |-> <<>>]

\* CommandRegistry.AddCommand(cmd), cmd the caller's object at address ref
AddCommandOp(reg, ref, base, name) ==
    LET cmd == NewCommand(ref, name) IN
    [registry |-> [reg EXCEPT ![base].Commands = Put(@, cmd.Name, cmd)],
     nextRef |-> ref + 1,
     ret |-> [op |-> "AddCommand", ptr |-> Nil, existed |-> FALSE]]

\* Command.AddArg(arg) on the command c of base; arg is the caller's object
\* at address ref, newArg is allocated at ref + 1
AddArgOp(reg, ref, base, c, arg) ==
    LET cmd == reg[base].Commands[c]
        name0 == removeWhitespaces(arg.Name)
        cleanDefault == removeWhitespaces(arg.Default)
        va == isVariadicArg(name0)
        cleanName == IF va.ok THEN va.name ELSE name0
        variadic == va.ok
    IN
    IF Has(cmd.Args, cleanName)
    THEN [registry |-> reg, nextRef |-> ref,
          ret |-> [op |-> "AddArg", ptr |-> cmd.Args[cleanName].ref,
                   existed |-> TRUE]]
    ELSE LET newArg == [ref |-> ref + 1, Name |-> cleanName,
                        IsVariadic |-> variadic, Default |-> cleanDefault,
                        Value |-> Empty]
             cmd2 == [cmd EXCEPT !.Args = Put(@, cleanName, newArg),
                                 !.ArgNames = Append(@, cleanName)]
         IN [registry |-> [reg EXCEPT ![base].Commands[c] = cmd2],
             nextRef |-> ref + 2,
             ret |-> [op |-> "AddArg", ptr |-> ref, existed |-> FALSE]]

\* AddFlag keeping the shorthand of an inverted flag
AddFlagOpKeepsShorthand(reg, ref, base, c, flg) ==
    LET cmd == reg[base].Commands[c]
        name0 == removeWhitespaces(flg.Name)
        short0 == removeWhitespaces(flg.ShortName)
        default0 == removeWhitespaces(flg.Default)
        short1 == IF short0 # Empty THEN SubSeq(short0, 1, 1) ELSE short0
        inv == flg.IsBoolean /\ HasPrefix(flg.Name, <<"n", "o", "-">>)
        isInverted == inv
        cleanName == IF inv THEN TrimLeft(flg.Name, <<"n", "o", "-">>)
                     ELSE name0
        cleanDefaultValue == IF flg.IsBoolean
                             THEN IF inv THEN <<"t", "r", "u", "e">>
                                  ELSE <<"f", "a", "l", "s", "e">>
                             ELSE default0
        cleanShortName == short1
    IN
    IF Has(cmd.Flags, cleanName)
    THEN [registry |-> reg, nextRef |-> ref,
          ret |-> [op |-> "AddFlag", ptr |-> cmd.Flags[cleanName].ref,
                   existed |-> TRUE]]
    ELSE LET flag == [ref |-> ref + 1, Name |-> cleanName,
                      ShortName |-> cleanShortName,
                      IsBoolean |-> flg.IsBoolean,
                      IsInverted |-> isInverted,
                      Default |-> cleanDefaultValue, Value |-> Empty]
             cmd1 == [cmd EXCEPT !.Flags = Put(@, cleanName, flag)]
             cmd2 == IF Len(cleanShortName) > 0
                     THEN [cmd1 EXCEPT !.shorthandFlags =
                                          Put(@, cleanShortName, cleanName)]
                     ELSE cmd1
         IN [registry |-> [reg EXCEPT ![base].Commands[c] = cmd2],
             nextRef |-> ref + 2,
             ret |-> [op |-> "AddFlag", ptr |-> ref + 1, existed |-> FALSE]]

\* Command.AddFlag(flg) on the command c of base; flg is the caller's object
\* at address ref, flag is allocated at ref + 1
AddFlagOp(reg, ref, base, c, flg) ==
    LET cmd == reg[base].Commands[c]
        name0 == removeWhitespaces(flg.Name)
        short0 == removeWhitespaces(flg.ShortName)
        default0 == removeWhitespaces(flg.Default)
        short1 == IF short0 # Empty THEN SubSeq(short0, 1, 1) ELSE short0
        inv == flg.IsBoolean /\ HasPrefix(flg.Name, <<"n", "o", "-">>)
        isInverted == inv
        cleanName == IF inv THEN TrimLeft(flg.Name, <<"n", "o", "-">>)
                     ELSE name0
        cleanDefaultValue == IF flg.IsBoolean
                             THEN IF inv THEN <<"t", "r", "u", "e">>
                                  ELSE <<"f", "a", "l", "s", "e">>
                             ELSE default0
        cleanShortName == IF inv THEN Empty ELSE short1
    IN
    IF Has(cmd.Flags, cleanName)
    THEN [registry |-> reg, nextRef |-> ref,
          ret |-> [op |-> "AddFlag", ptr |-> cmd.Flags[cleanName].ref,
                   existed |-> TRUE]]
    ELSE LET flag == [ref |-> ref + 1, Name |-> cleanName,
                      ShortName |-> cleanShortName,
                      IsBoolean |-> flg.IsBoolean,
                      IsInverted |-> isInverted,
                      Default |-> cleanDefaultValue, Value |-> Empty]
             cmd1 == [cmd EXCEPT !.Flags = Put(@, cleanName, flag)]
             cmd2 == IF Len(cleanShortName) > 0
                     THEN [cmd1 EXCEPT !.shorthandFlags =
                                          Put(@, cleanShortName, cleanName)]
                     ELSE cmd1
         IN [registry |-> [reg EXCEPT ![base].Commands[c] = cmd2],
             nextRef |-> ref + 2,
             ret |-> [op |-> "AddFlag", ptr |-> ref + 1, existed |-> FALSE]]

----------------------------------------------------------------------------
(* CommandRegistry.Parse.  A call is the record of its locals, the registry *)
(* it mutates and what it returned; pc is "loop" at the head of the consume *)
(* loop, "returned" after a return and "panicked" after a run-time panic.   *)

NoErr == [kind |-> "nil", Name |-> Empty]

ErrorUnknownCommand(name) == [kind |-> "ErrorUnknownCommand", Name |-> name]

ErrorUnknownFlag(name) == [kind |-> "ErrorUnknownFlag", Name |-> name]

ErrorUnsupportedFlag(name) == [kind |-> "ErrorUnsupportedFlag", Name |-> name]

\* a *Command or *Flag: nil, or the object stored under key in its map
NilPtr == [isNil |-> TRUE, key |-> Empty]

PtrTo(key) == [isNil |-> FALSE, key |-> key]

Lookup(m, k) == IF Has(m, k) THEN PtrTo(k) ELSE NilPtr

NoResult == [fn |-> "none", cmd |-> NilPtr, err |-> NoErr]

\* the index of the first value the pre-scan rejects, 0 when there is none
RECURSIVE FirstUnsupported(_, _)
FirstUnsupported(values, i) ==
    IF i > Len(values) THEN 0
    ELSE IF isFlag(values[i]) /\ isUnsupportedFlag(values[i]) THEN i
         ELSE FirstUnsupported(values, i + 1)

Returned(reg, cmdPtr, err) ==
    [registry |-> reg, pc |-> "returned", formattedArguments |-> <<>>,
     commands |-> NilPtr,
     result |-> [fn |-> "CommandRegistry.Parse", cmd |-> cmdPtr, err |-> err]]

Panicked(reg) ==
    [registry |-> reg, pc |-> "panicked", formattedArguments |-> <<>>,
     commands |-> NilPtr,
     result |-> [fn |-> "CommandRegistry.Parse", cmd |-> NilPtr,
                 err |-> NoErr]]

\* Parse with the pre-scan run after the first positional assignment
ParseEnterScansLate(reg, base, argv) ==
    IF Len(argv) = 0
    THEN Panicked(reg)
    ELSE LET commandName == argv[1]
             formatted == formatCommandValues(argv)
             bad == FirstUnsupported(argv, 1)
             assigned ==
                 IF /\ Has(reg[base].Commands, commandName)
                    /\ reg[base].Commands[commandName].ArgNames # <<>>
                 THEN [reg EXCEPT
                         ![base].Commands[commandName].Args[
                            reg[base].Commands[commandName].ArgNames[1]].Value
                              = commandName]
                 ELSE reg
         IN IF bad # 0
            THEN Returned(assigned, NilPtr, ErrorUnsupportedFlag(argv[bad]))
            ELSE [registry |-> reg, pc |-> "loop",
                  formattedArguments |-> formatted,
                  commands |-> Lookup(reg[base].Commands, commandName),
                  result |-> NoResult]

\* Parse up to the head of the consume loop (argo.go 296-309)
ParseEnter(reg, base, argv) ==
    IF Len(argv) = 0
    THEN Panicked(reg)                      \* args[0]: index out of range
    ELSE LET commandName == argv[1]
             formatted == formatCommandValues(argv)
             bad == FirstUnsupported(argv, 1)
         IN IF bad # 0
            THEN Returned(reg, NilPtr, ErrorUnsupportedFlag(argv[bad]))
            ELSE [registry |-> reg, pc |-> "loop",
                  formattedArguments |-> formatted,
                  commands |-> Lookup(reg[base].Commands, commandName),
                  result |-> NoResult]

\* the positional assignment appending to every argument already set
RECURSIVE AssignArgAppendsAny(_, _, _)
AssignArgAppendsAny(cmd, value, index) ==
    IF index > Len(cmd.ArgNames) THEN cmd
    ELSE LET argName == cmd.ArgNames[index]
         IN IF Len(cmd.Args[argName].Value) = 0
            THEN [cmd EXCEPT !.Args[argName].Value = value]
            ELSE AssignArgAppendsAny(
                   [cmd EXCEPT !.Args[argName].Value = @ \o <<",">> \o value],
                   value, index + 1)

\* the positional assignment writing the token into Default as well
AssignArgSetsDefault(cmd, value, index) ==
    IF index > Len(cmd.ArgNames) THEN cmd
    ELSE [cmd EXCEPT !.Args[cmd.ArgNames[index]].Value = value,
                     !.Args[cmd.ArgNames[index]].Default = value]

\* the scan of ArgNames for a positional value, from position index on
RECURSIVE AssignArg(_, _, _)
AssignArg(cmd, value, index) ==
    IF index > Len(cmd.ArgNames) THEN cmd
    ELSE LET argName == cmd.ArgNames[index]
             arg == cmd.Args[argName]
         IN IF Len(arg.Value) = 0
            THEN [cmd EXCEPT !.Args[argName].Value = value]
            ELSE IF index = Len(cmd.ArgNames) /\ arg.IsVariadic
                 THEN AssignArg(
                        [cmd EXCEPT !.Args[argName].Value = @ \o <<",">> \o value],
                        value, index + 1)
                 ELSE AssignArg(cmd, value, index + 1)

\* the flag a flag-shaped value resolves to: [err, flag], err # NoErr when
\* the resolution returns an error, flag possibly nil
ResolveFlag(cmd, value) ==
    LET name == TrimLeft(value, <<"-">>)
        inv == isInvertedFlag(value)
        flagName == inv.name
    IN IF isShortFlag(value)
       THEN IF ~Has(cmd.shorthandFlags, name)
            THEN [err |-> ErrorUnknownFlag(value), flag |-> NilPtr]
            ELSE [err |-> NoErr, flag |-> NilPtr]
       ELSE IF inv.ok
            THEN IF ~Has(cmd.Flags, flagName)
                 THEN [err |-> ErrorUnknownFlag(value), flag |-> NilPtr]
                 ELSE [err |-> NoErr, flag |-> PtrTo(flagName)]
            ELSE IF ~Has(cmd.Flags, flagName) \/ cmd.Flags[flagName].IsInverted
                 THEN [err |-> ErrorUnknownFlag(value), flag |-> NilPtr]
                 ELSE [err |-> NoErr, flag |-> Lookup(cmd.Flags, name)]

\* the Value a resolved flag gets, given the values after the flag token
SetFlag(cmd, flagKey, valuesToParse) ==
    LET flag == cmd.Flags[flagKey]
        nextValue == next(valuesToParse).val
    IN IF flag.IsBoolean
       THEN IF flag.IsInverted
            THEN [cmd EXCEPT !.Flags[flagKey].Value = <<"f", "a", "l", "s", "e">>]
            ELSE [cmd EXCEPT !.Flags[flagKey].Value = <<"t", "r", "u", "e">>]
       ELSE IF Len(nextValue) # 0 /\ ~isFlag(nextValue)
            THEN [cmd EXCEPT !.Flags[flagKey].Value = nextValue]
            ELSE cmd

\* one iteration of the consume loop (argo.go 311-376)
LoopIter(reg, base, formatted, cmdPtr) ==
    LET nx == next(formatted)
        value == nx.val
        valuesToParse == nx.newSlice
        continue(reg2) ==
            \* formattedArguments is not reassigned: valuesToParse is a
            \* variable of the loop body
            [registry |-> reg2, pc |-> "loop",
             formattedArguments |-> formatted,
             commands |-> cmdPtr, result |-> NoResult]
        store(cmd2) == [reg EXCEPT ![base].Commands[cmdPtr.key] = cmd2]
    IN IF Len(value) = 0
       THEN Returned(reg, cmdPtr, NoErr)
       ELSE IF cmdPtr.isNil
            THEN Panicked(reg)              \* nil pointer dereference
            ELSE LET cmd == reg[base].Commands[cmdPtr.key] IN
                 IF isFlag(value)
                 THEN LET r == ResolveFlag(cmd, value) IN
                      IF r.err # NoErr
                      THEN Returned(reg, NilPtr, r.err)
                      ELSE IF r.flag.isNil
                           THEN Panicked(reg)   \* flag.IsBoolean on nil
                           ELSE continue(store(SetFlag(cmd, r.flag.key,
                                                       valuesToParse)))
                 ELSE continue(store(AssignArg(cmd, value, 1)))

\* Registry.Parse (the second source file, 168-181): commandName is never
\* assigned, so the registry is looked up under the empty name; the file
\* ends after the lookup, where pc becomes "fellOff"
RegistryParse(reg, argv) ==
    LET commandName == Empty
        bad == FirstUnsupported(argv, 1)
        answer(pcv, err) ==
            [registry |-> reg, pc |-> pcv, formattedArguments |-> <<>>,
             commands |-> NilPtr,
             result |-> [fn |-> "Registry.Parse", cmd |-> NilPtr, err |-> err]]
    IN IF bad # 0
       THEN answer("returned", ErrorUnsupportedFlag(argv[bad]))
       ELSE IF ~Has(reg, commandName)
            THEN answer("returned", ErrorUnknownCommand(commandName))
            ELSE answer("fellOff", NoErr)

----------------------------------------------------------------------------
(* The strings the model draws its inputs from. *)

sCrn == <<"c", "r", "n">>
sCrnSp == <<"c", " ", "r", "n">>
sGen == <<"g", "e", "n">>
sGenSp == <<"g", " ", "e", "n">>
sG == <<"g">>
sGG == <<"g", "g">>
sGx == <<"g", "x">>
sVb == <<"v", "b">>
sV == <<"v">>
sNoVb == <<"n", "o", "-", "v", "b">>
sNoOx == <<"n", "o", "-", "o", "x">>
sAll == <<"a", "l", "l">>
sA == <<"a">>
sD == <<"d">>

sDSpD == <<"d", " ", "d">>
sOut == <<"o", "u", "t">>
sNm == <<"n", "m">>
sNSpM == <<"n", " ", "m">>
sTgDots == <<"t", "g", ".", ".", ".">>
sFsDots == <<"f", "s", ".", ".", ".">>
sTg == <<"t", "g">>
sV1 == <<"1">>
sV2 == <<"2">>

\* tokens of an argument vector
tDashG == <<"-", "g">>
tLongGen == <<"-", "-", "g", "e", "n">>
tAb == <<"a", "b">>
tX == <<"x">>
tBadDashes == <<"-", "-", "-", "g">>
tDashX == <<"-", "x">>
tLongNoVb == <<"-", "-", "n", "o", "-", "v", "b">>
tLongVb == <<"-", "-", "v", "b">>
tGenEqAb == <<"-", "-", "g", "e", "n", "=", "a", "b">>
tGenEqX == <<"-", "-", "g", "e", "n", "=", "x">>
tAEq == <<"a", "=">>

ParseTokens ==
    {Empty, sGen, tDashG, tLongGen, tAb, tX, tBadDashes, tDashX, tLongNoVb,
     tLongVb, tGenEqAb, tGenEqX, tAEq}

RECURSIVE SeqsUpTo(_, _)
SeqsUpTo(S, n) ==
    IF n = 0 THEN {<<>>}
    ELSE LET shorter == SeqsUpTo(S, n - 1)
         IN shorter \cup {Append(q, x) : q \in {r \in shorter : Len(r) = n - 1},
                                         x \in S}

ArgVectors == SeqsUpTo(ParseTokens, MaxArgs)

\* the Flag and Arg objects callers declare
FlagDecl(name, short, bool, def) ==
    [Name |-> name, ShortName |-> short, IsBoolean |-> bool, Default |-> def]

ArgDecl(name, def) == [Name |-> name, Default |-> def]

FlagDecls ==
    {FlagDecl(sGen, sG, FALSE, Empty), FlagDecl(sGenSp, sGG, FALSE, sD),
     FlagDecl(sGx, sG, FALSE, sDSpD), FlagDecl(sVb, sV, TRUE, Empty),
     FlagDecl(sNoVb, sV, TRUE, Empty), FlagDecl(sNoOx, Empty, TRUE, sD)}

ArgDecls ==
    {ArgDecl(sNm, Empty), ArgDecl(sNSpM, sD), ArgDecl(sTgDots, Empty),
     ArgDecl(sFsDots, Empty)}

BaseNames == {sCrn, sCrnSp}

CommandNames == {sGen, Empty}

----------------------------------------------------------------------------
(* Registries a program has built when it calls Parse: each is the result  *)
(* of a script of registration calls on the empty registry.                *)

RECURSIVE Build(_, _)
Build(script, st) ==
    IF script = <<>> THEN st
    ELSE LET call == Head(script)
             st2 == CASE call.op = "Register" ->
                           RegisterOp(st.registry, st.nextRef, call.name,
                                      sV1, sD)
                      [] call.op = "AddCommand" ->
                           AddCommandOp(st.registry, st.nextRef, sCrn,
                                        call.name)
                      [] call.op = "AddFlag" ->
                           AddFlagOp(st.registry, st.nextRef, sCrn, call.c,
                                     call.decl)
                      [] call.op = "AddArg" ->
                           AddArgOp(st.registry, st.nextRef, sCrn, call.c,
                                    call.decl)
         IN Build(Tail(script), st2)

Unregistered == [registry |-> EmptyMap, nextRef |-> 1, ret |-> NoRet]

\* the same declarations on the commands "gen" and ""
RECURSIVE Declare(_, _)
Declare(c, decls) ==
    IF decls = <<>> THEN <<>>
    ELSE <<[op |-> IF "IsBoolean" \in DOMAIN Head(decls)
                   THEN "AddFlag" ELSE "AddArg",
            c |-> c, decl |-> Head(decls)]>> \o Declare(c, Tail(decls))

Script(decls) ==
    <<[op |-> "Register", name |-> sCrn],
      [op |-> "AddCommand", name |-> sGen],
      [op |-> "AddCommand", name |-> Empty]>>
        \o Declare(sGen, decls) \o Declare(Empty, decls)

Setups ==
    {Build(Script(decls), Unregistered) : decls \in
       {<<>>,
        <<FlagDecl(sGen, sG, FALSE, Empty), ArgDecl(sOut, Empty)>>,
        <<ArgDecl(sNm, Empty), ArgDecl(sTgDots, Empty)>>,
        <<ArgDecl(sTgDots, Empty)>>,
        <<FlagDecl(sNoVb, Empty, TRUE, Empty),
          FlagDecl(sAll, sA, TRUE, Empty), ArgDecl(sOut, Empty)>>}}

----------------------------------------------------------------------------
(* The parse of one argument vector against a built registry. *)

NoOut == [fn |-> "none", ok |-> FALSE, name |-> Empty]

parseVars == <<args, pc, formattedArguments, commands, result>>

regVars == <<registry, nextRef, ret>>

tokVars == <<tok, out>>

ParseIdle ==
    /\ pc = "idle"
    /\ formattedArguments = <<>>
    /\ commands = NilPtr
    /\ result = NoResult

Init ==
    /\ \E setup \in Setups :
          /\ registry = setup.registry
          /\ nextRef = setup.nextRef
          /\ ret = setup.ret
    /\ args \in ArgVectors
    /\ ParseIdle
    /\ tok = Empty
    /\ out = NoOut

\* the call's state becomes ps
Becomes(ps) ==
    /\ registry' = ps.registry
    /\ pc' = ps.pc
    /\ formattedArguments' = ps.formattedArguments
    /\ commands' = ps.commands
    /\ result' = ps.result
    /\ UNCHANGED <<nextRef, ret, args, tok, out>>

\* every Arg.Value of the selected command is within the bound
WithinValueBound ==
    \/ commands.isNil
    \/ LET cmd == registry[sCrn].Commands[commands.key]
       IN \A a \in DOMAIN cmd.Args : Len(cmd.Args[a].Value) <= MaxValueLen

\* cmd.Parse(args) is called on the CommandRegistry registered as "crn"
Parse ==
    /\ pc = "idle"
    /\ Becomes(ParseEnter(registry, sCrn, args))

\* the consume loop runs one iteration
ConsumeLoop ==
    /\ pc = "loop"
    /\ WithinValueBound
    /\ Becomes(LoopIter(registry, sCrn, formattedArguments, commands))

\* r.Parse(args) is called on the Registry
ParseRegistry ==
    /\ pc = "idle"
    /\ Becomes(RegistryParse(registry, args))

Next == Parse \/ ConsumeLoop \/ ParseRegistry

Spec == Init /\ [][Next]_vars

----------------------------------------------------------------------------
(* The registration calls, from the empty registry. *)

InitReg ==
    /\ registry = EmptyMap
    /\ nextRef = 1
    /\ ret = NoRet
    /\ args = <<>>
    /\ ParseIdle
    /\ tok = Empty
    /\ out = NoOut

Registered(st) ==
    /\ registry' = st.registry
    /\ nextRef' = st.nextRef
    /\ ret' = st.ret
    /\ UNCHANGED <<parseVars, tokVars>>

CanAllocate == nextRef + 1 <= MaxRefs

Register ==
    /\ CanAllocate
    /\ \E name \in BaseNames, version \in {sV1, sV2} :
          Registered(RegisterOp(registry, nextRef, name, version, sD))

AddCommand ==
    /\ CanAllocate
    /\ \E base \in DOMAIN registry, name \in CommandNames :
          Registered(AddCommandOp(registry, nextRef, base, name))

AddFlag ==
    /\ CanAllocate
    /\ \E base \in DOMAIN registry :
          \E c \in DOMAIN registry[base].Commands, flg \in FlagDecls :
             Registered(AddFlagOp(registry, nextRef, base, c, flg))

AddArg ==
    /\ CanAllocate
    /\ \E base \in DOMAIN registry :
          \E c \in DOMAIN registry[base].Commands, arg \in ArgDecls :
             Registered(AddArgOp(registry, nextRef, base, c, arg))

NextReg == Register \/ AddCommand \/ AddFlag \/ AddArg

SpecReg == InitReg /\ [][NextReg]_vars

----------------------------------------------------------------------------
(* The token classifiers applied to one token. *)

TokAlphabet == {"-", "g", "o", "d", "n"}

\* every string over the alphabet, and declared argument names
Tokens == SeqsUpTo(TokAlphabet, MaxTokLen) \cup {sTgDots, sFsDots, sNm}

InitTok ==
    /\ registry = EmptyMap
    /\ nextRef = 1
    /\ ret = NoRet
    /\ args = <<>>
    /\ ParseIdle
    /\ tok \in Tokens
    /\ out = NoOut

ClassifyFlag ==
    /\ out = NoOut
    /\ out' = [fn |-> "isFlag", ok |-> isFlag(tok), name |-> Empty]
    /\ UNCHANGED <<regVars, parseVars, tok>>

ClassifyShortFlag ==
    /\ out = NoOut
    /\ out' = [fn |-> "isShortFlag", ok |-> isShortFlag(tok), name |-> Empty]
    /\ UNCHANGED <<regVars, parseVars, tok>>

ClassifyInvertedFlag ==
    /\ out = NoOut
    /\ out' = [fn |-> "isInvertedFlag", ok |-> isInvertedFlag(tok).ok,
               name |-> isInvertedFlag(tok).name]
    /\ UNCHANGED <<regVars, parseVars, tok>>

ClassifyUnsupportedFlag ==
    /\ out = NoOut
    /\ out' = [fn |-> "isUnsupportedFlag", ok |-> isUnsupportedFlag(tok),
               name |-> Empty]
    /\ UNCHANGED <<regVars, parseVars, tok>>

ClassifyVariadicArg ==
    /\ out = NoOut
    /\ out' = [fn |-> "isVariadicArg", ok |-> isVariadicArg(tok).ok,
               name |-> isVariadicArg(tok).name]
    /\ UNCHANGED <<regVars, parseVars, tok>>

NextTok ==
    \/ ClassifyFlag
    \/ ClassifyShortFlag
    \/ ClassifyInvertedFlag
    \/ ClassifyUnsupportedFlag
    \/ ClassifyVariadicArg

SpecTok == InitTok /\ [][NextTok]_vars

----------------------------------------------------------------------------
(* What the documented grammar calls a flag, a malformed flag and a        *)
(* positional value, and the values a well-formed vector is documented to  *)
(* give.  These state the documented behaviour; they are not the code's.   *)

DocShort(t) == Len(t) = 2 /\ t[1] = "-" /\ t[2] # "-"

DocLong(t) == Len(t) > 2 /\ t[1] = "-" /\ t[2] = "-" /\ t[3] # "-"

DocMalformed(t) == Len(t) >= 2 /\ t[1] = "-" /\ ~DocShort(t) /\ ~DocLong(t)

DocPositional(t) == Len(t) > 0 /\ t[1] # "-"

NoFlag == [found |-> FALSE, key |-> Empty]

\* the declared flag of cmd a well-formed flag token names
DocFlagOf(cmd, t) ==
    IF DocShort(t)
    THEN IF Has(cmd.shorthandFlags, <<t[2]>>)
         THEN [found |-> TRUE, key |-> cmd.shorthandFlags[<<t[2]>>]]
         ELSE NoFlag
    ELSE LET name == SubSeq(t, 3, Len(t))
             plain == SubSeq(name, 4, Len(name))
         IN IF Has(cmd.Flags, name) /\ ~cmd.Flags[name].IsInverted
            THEN [found |-> TRUE, key |-> name]
            ELSE IF /\ HasPrefix(name, <<"n", "o", "-">>)
                    /\ Has(cmd.Flags, plain)
                    /\ cmd.Flags[plain].IsInverted
                 THEN [found |-> TRUE, key |-> plain]
                 ELSE NoFlag

\* the documented reading of the tokens after the command name:
\* ok, the Value of every flag given, and the positional tokens in order
RECURSIVE DocReading(_, _)
DocReading(cmd, toks) ==
    IF toks = <<>> THEN [ok |-> TRUE, flags |-> EmptyMap, pos |-> <<>>]
    ELSE LET t == Head(toks) IN
         IF DocShort(t) \/ DocLong(t)
         THEN LET f == DocFlagOf(cmd, t) IN
              IF ~f.found THEN [ok |-> FALSE, flags |-> EmptyMap, pos |-> <<>>]
              ELSE IF cmd.Flags[f.key].IsBoolean
                   THEN LET r == DocReading(cmd, Tail(toks))
                            v == IF cmd.Flags[f.key].IsInverted
                                 THEN <<"f", "a", "l", "s", "e">>
                                 ELSE <<"t", "r", "u", "e">>
                        IN [r EXCEPT !.flags =
                              IF Has(@, f.key) THEN @ ELSE Put(@, f.key, v)]
                   ELSE IF Len(toks) >= 2 /\ DocPositional(toks[2])
                        THEN LET r == DocReading(cmd, Tail(Tail(toks)))
                             IN [r EXCEPT !.flags =
                                   IF Has(@, f.key) THEN @
                                   ELSE Put(@, f.key, toks[2])]
                        ELSE [ok |-> FALSE, flags |-> EmptyMap, pos |-> <<>>]
         ELSE IF DocPositional(t)
              THEN LET r == DocReading(cmd, Tail(toks))
                   IN [r EXCEPT !.pos = <<t>> \o @]
              ELSE [ok |-> FALSE, flags |-> EmptyMap, pos |-> <<>>]

\* the documented consumption of the tokens after the command name: as
\* DocReading, but a value-taking flag whose next token is missing or is a
\* flag keeps an unset Value and the next token is read on its own
RECURSIVE DocConsumption(_, _)
DocConsumption(cmd, toks) ==
    IF toks = <<>> THEN [ok |-> TRUE, flags |-> EmptyMap, pos |-> <<>>]
    ELSE LET t == Head(toks) IN
         IF DocShort(t) \/ DocLong(t)
         THEN LET f == DocFlagOf(cmd, t) IN
              IF ~f.found THEN [ok |-> FALSE, flags |-> EmptyMap, pos |-> <<>>]
              ELSE IF cmd.Flags[f.key].IsBoolean
                   THEN LET r == DocConsumption(cmd, Tail(toks))
                            v == IF cmd.Flags[f.key].IsInverted
                                 THEN <<"f", "a", "l", "s", "e">>
                                 ELSE <<"t", "r", "u", "e">>
                        IN [r EXCEPT !.flags =
                              IF Has(@, f.key) THEN @ ELSE Put(@, f.key, v)]
                   ELSE IF Len(toks) >= 2 /\ DocPositional(toks[2])
                        THEN LET r == DocConsumption(cmd, Tail(Tail(toks)))
                             IN [r EXCEPT !.flags =
                                   IF Has(@, f.key) THEN @
                                   ELSE Put(@, f.key, toks[2])]
                        ELSE LET r == DocConsumption(cmd, Tail(toks))
                             IN [r EXCEPT !.flags =
                                   IF Has(@, f.key) THEN @
                                   ELSE Put(@, f.key, Empty)]
         ELSE IF DocPositional(t)
              THEN LET r == DocConsumption(cmd, Tail(toks))
                   IN [r EXCEPT !.pos = <<t>> \o @]
              ELSE [ok |-> FALSE, flags |-> EmptyMap, pos |-> <<>>]

\* the strings of ts joined by commas
RECURSIVE JoinComma(_)
JoinComma(ts) ==
    IF ts = <<>> THEN Empty
    ELSE IF Len(ts) = 1 THEN ts[1]
         ELSE ts[1] \o <<",">> \o JoinComma(Tail(ts))

\* the commands of every registry entry
AllCommands(reg) ==
    UNION {{reg[b].Commands[c] : c \in DOMAIN reg[b].Commands} :
             b \in DOMAIN reg}

\* the CommandRegistry the parse runs on, and the command args[0] names
Entry == registry[sCrn]

SelectorRegistered == Len(args) > 0 /\ Has(Entry.Commands, args[1])

Selected == Entry.Commands[args[1]]

\* a call of CommandRegistry.Parse has ended, by a return or a panic
ParseEnded ==
    /\ pc \in {"returned", "panicked"}
    /\ result.fn = "CommandRegistry.Parse"

ParseReturnedNoError ==
    /\ pc = "returned"
    /\ result.err = NoErr
    /\ result.cmd = PtrTo(args[1])

\* no Flag.Value and no Arg.Value of any command is set
AllValuesUnset ==
    \A b \in DOMAIN registry : \A c \in DOMAIN registry[b].Commands :
       LET cmd == registry[b].Commands[c] IN
       /\ \A f \in DOMAIN cmd.Flags : cmd.Flags[f].Value = Empty
       /\ \A a \in DOMAIN cmd.Args : cmd.Args[a].Value = Empty

----------------------------------------------------------------------------
(* Claims about CommandRegistry.Parse, checked under Spec.  Those about a *)
(* call's outcome are stated of vectors none of whose arguments the        *)
(* pre-scan rejects (FirstUnsupported is 0), so that what they show does   *)
(* not rest on the pre-scan.                                               *)

\* C1: every iteration of the consume loop that stays in the loop advances
\* the cursor over the normalized token stream, so the loop exits once the
\* stream is exhausted.
C1_CursorAdvances ==
    [][(pc = "loop" /\ pc' = "loop")
         => Len(formattedArguments') < Len(formattedArguments)]_vars

\* C2: for a registered command and a vector of declared, correctly shaped
\* flags (each value-taking flag followed by its value) and exactly as many
\* positional tokens as declared arguments, Parse returns no error, every
\* given value-taking flag holds the token that followed it and the i-th
\* declared argument holds the i-th positional token.
C2_WellFormedVectorParses ==
    (/\ ParseEnded
     /\ SelectorRegistered
     /\ FirstUnsupported(args, 1) = 0
     /\ DocReading(Selected, Tail(args)).ok
     /\ Len(DocReading(Selected, Tail(args)).pos) = Len(Selected.ArgNames))
    => LET r == DocReading(Selected, Tail(args)) IN
       /\ ParseReturnedNoError
       /\ \A f \in DOMAIN r.flags :
             ~Selected.Flags[f].IsBoolean
                => Selected.Flags[f].Value = r.flags[f]
       /\ \A i \in 1..Len(Selected.ArgNames) :
             Selected.Args[Selected.ArgNames[i]].Value = r.pos[i]

\* the first malformed flag token of the argument vector
RECURSIVE FirstMalformed(_, _)
FirstMalformed(values, i) ==
    IF i > Len(values) THEN 0
    ELSE IF DocMalformed(values[i]) THEN i
         ELSE FirstMalformed(values, i + 1)

\* C3: when some raw argument is a malformed flag token (the command is
\* registered and the pre-scan rejects no other argument), Parse returns ErrorUnsupportedFlag naming the
\* first such token, and no command.
C3_MalformedFlagRejected ==
    (/\ ParseEnded
     /\ SelectorRegistered
     /\ FirstMalformed(args, 1) # 0
     /\ FirstUnsupported(args, 1) = 0)
    => /\ pc = "returned"
       /\ result.err = ErrorUnsupportedFlag(args[FirstMalformed(args, 1)])
       /\ result.cmd = NilPtr

\* C4: when position 0 names no registered command (and no argument is
\* rejected as an unsupported flag), Parse returns ErrorUnknownCommand
\* carrying the selector, and no Flag or Arg value is modified.
C4_UnknownCommandReported ==
    (/\ ParseEnded
     /\ Len(args) > 0
     /\ ~Has(Entry.Commands, args[1])
     /\ FirstMalformed(args, 1) = 0
     /\ FirstUnsupported(args, 1) = 0)
    => /\ pc = "returned"
       /\ result.err = ErrorUnknownCommand(args[1])
       /\ result.cmd = NilPtr
       /\ AllValuesUnset

\* the tokens before position i read as documented, and token i is a
\* well-formed flag token that names no declared flag
UndeclaredFlagAt(i) ==
    /\ i \in 2..Len(args)
    /\ DocShort(args[i]) \/ DocLong(args[i])
    /\ ~DocFlagOf(Selected, args[i]).found
    /\ DocReading(Selected, SubSeq(args, 2, i - 1)).ok

\* C5: a well-formed flag token that is not declared on the selected
\* command (in a vector with no malformed or rejected argument) makes Parse
\* return ErrorUnknownFlag carrying that token.
C5_UndeclaredFlagReported ==
    \A i \in 1..MaxArgs + 1 :
       (/\ ParseEnded
        /\ SelectorRegistered
        /\ FirstMalformed(args, 1) = 0
        /\ FirstUnsupported(args, 1) = 0
        /\ UndeclaredFlagAt(i))
       => /\ pc = "returned"
          /\ result.err = ErrorUnknownFlag(args[i])

\* the call after Parse has entered and run at most n loop iterations
RECURSIVE Iterate(_, _)
Iterate(ps, n) ==
    IF ps.pc # "loop" \/ n = 0 THEN ps
    ELSE Iterate(LoopIter(ps.registry, sCrn, ps.formattedArguments,
                          ps.commands), n - 1)

ParseRun(reg, argv, n) == Iterate(ParseEnter(reg, sCrn, argv), n)

\* loop iterations two calls are compared over
MaxIter == 3

\* token t is --f=v for a declared value-taking flag f and a value v
IsFlagEqValue(cmd, t) ==
    /\ DocLong(t)
    /\ Len(Split(t, "=")) = 2
    /\ Split(t, "=")[2] # Empty
    /\ LET name == SubSeq(Split(t, "=")[1], 3, Len(Split(t, "=")[1]))
       IN Has(cmd.Flags, name) /\ ~cmd.Flags[name].IsBoolean

\* argv with the token at position i replaced by its two parts
SplitAt(argv, i) ==
    SubSeq(argv, 1, i - 1) \o Split(argv[i], "=")
       \o SubSeq(argv, i + 1, Len(argv))

\* C6: a vector holding --f=v gives the same result (error outcome and
\* Flag/Arg Values) as the vector with that token replaced by --f and v,
\* from the same command state.
C6_EqualsFormSameAsTwoTokens ==
    (pc = "idle" /\ SelectorRegistered)
    => \A i \in 2..Len(args) :
          IsFlagEqValue(Selected, args[i])
          => \A n \in 0..MaxIter :
                LET one == ParseRun(registry, args, n)
                    two == ParseRun(registry, SplitAt(args, i), n)
                IN /\ one.pc = two.pc
                   /\ one.result = two.result
                   /\ one.registry = two.registry

\* C7: with arguments a1..an declared, an variadic, and positional tokens
\* t1..tm (m >= n), Parse gives ai the token ti for i < n and an the tokens
\* tn..tm joined by commas in arrival order.
C7_VariadicAccumulates ==
    (/\ ParseEnded
     /\ SelectorRegistered
     /\ FirstUnsupported(args, 1) = 0
     /\ Len(Selected.ArgNames) >= 1
     /\ Selected.Args[Selected.ArgNames[Len(Selected.ArgNames)]].IsVariadic
     /\ Len(args) - 1 >= Len(Selected.ArgNames)
     /\ \A i \in 2..Len(args) : DocPositional(args[i]))
    => LET n == Len(Selected.ArgNames)
           t == Tail(args)
       IN /\ ParseReturnedNoError
          /\ \A i \in 1..n - 1 : Selected.Args[Selected.ArgNames[i]].Value = t[i]
          /\ Selected.Args[Selected.ArgNames[n]].Value
                = JoinComma(SubSeq(t, n, Len(t)))

\* C8: in a well-formed vector, a given inverted boolean flag (--no-X for a
\* flag declared no-X) gets Value "false", a given non-inverted boolean flag
\* gets Value "true", Parse returns no error, and a boolean flag whose token
\* is absent keeps its Value unset.
C8_BooleanFlagValues ==
    (/\ ParseEnded
     /\ SelectorRegistered
     /\ FirstUnsupported(args, 1) = 0
     /\ DocReading(Selected, Tail(args)).ok
     /\ Len(DocReading(Selected, Tail(args)).pos) = Len(Selected.ArgNames)
     /\ \E f \in DOMAIN DocReading(Selected, Tail(args)).flags :
           Selected.Flags[f].IsBoolean)
    => LET r == DocReading(Selected, Tail(args)) IN
       /\ ParseReturnedNoError
       /\ \A f \in DOMAIN Selected.Flags :
             Selected.Flags[f].IsBoolean
                => Selected.Flags[f].Value
                     = IF Has(r.flags, f) THEN r.flags[f] ELSE Empty

\* C13: whenever Parse returns ErrorUnsupportedFlag, no Flag.Value and no
\* Arg.Value of any command differs from its value before the call (every
\* Value is unset before the call), wherever the offending token sits.
C13_UnsupportedFlagChangesNothing ==
    (pc = "returned" /\ result.err.kind = "ErrorUnsupportedFlag")
    => AllValuesUnset

\* CommandRegistry.Parse rejected the last of three arguments, on a command
\* with an argument the earlier tokens could have filled
C13_Witness ==
    /\ pc = "returned"
    /\ result.fn = "CommandRegistry.Parse"
    /\ result.err.kind = "ErrorUnsupportedFlag"
    /\ SelectorRegistered
    /\ args[1] # Empty
    /\ Selected.ArgNames # <<>>
    /\ Len(args) = 3
    /\ FirstUnsupported(args, 1) = 3
    /\ result.err.Name = args[3]

\* the i-th argument is the plain long token --X of a flag the selected
\* command declares only as the inverted no-X, after a well-formed prefix
PlainNameOfInvertedAt(i) ==
    /\ i \in 2..Len(args)
    /\ DocLong(args[i])
    /\ Has(Selected.Flags, SubSeq(args[i], 3, Len(args[i])))
    /\ Selected.Flags[SubSeq(args[i], 3, Len(args[i]))].IsInverted
    /\ DocReading(Selected, SubSeq(args, 2, i - 1)).ok

\* C14: when the selected command declares X only as the inverted flag no-X,
\* a vector containing the plain long token --X makes Parse return
\* ErrorUnknownFlag carrying --X, and the inverted flag's Value stays unset.
C14_PlainNameOfInvertedUnknown ==
    \A i \in 1..MaxArgs + 1 :
       (/\ ParseEnded
        /\ SelectorRegistered
        /\ FirstMalformed(args, 1) = 0
        /\ FirstUnsupported(args, 1) = 0
        /\ PlainNameOfInvertedAt(i))
       => /\ pc = "returned"
          /\ result.err = ErrorUnknownFlag(args[i])
          /\ Selected.Flags[SubSeq(args[i], 3, Len(args[i]))].Value = Empty

\* C15: a boolean flag consumes only its own token, so the positional
\* token after it is assigned to an argument; a value-taking flag takes the
\* next token as its Value only when that token exists and is not a flag,
\* and otherwise keeps an unset Value while the following flag token is
\* processed as a flag.  Stated of a call's outcome: for a registered
\* command and a vector of declared flags and positional tokens with at
\* least one flag token, Parse returns no error, each flag given holds the
\* Value of that consumption, and the first positional token left over is
\* in the first declared argument.
C15_ConsumptionByFlagKind ==
    (/\ ParseEnded
     /\ SelectorRegistered
     /\ FirstMalformed(args, 1) = 0
     /\ FirstUnsupported(args, 1) = 0
     /\ DocConsumption(Selected, Tail(args)).ok
     /\ DOMAIN DocConsumption(Selected, Tail(args)).flags # {})
    => LET r == DocConsumption(Selected, Tail(args)) IN
       /\ ParseReturnedNoError
       /\ \A f \in DOMAIN r.flags : Selected.Flags[f].Value = r.flags[f]
       /\ (r.pos # <<>> /\ Selected.ArgNames # <<>>)
             => HasPrefix(Selected.Args[Selected.ArgNames[1]].Value, r.pos[1])

\* command cmd with every Flag.Value and Arg.Value unset
ValuesCleared(cmd) ==
    [cmd EXCEPT
       !.Flags = [f \in DOMAIN cmd.Flags |->
                    [cmd.Flags[f] EXCEPT !.Value = Empty]],
       !.Args = [a \in DOMAIN cmd.Args |->
                   [cmd.Args[a] EXCEPT !.Value = Empty]]]

\* registry reg with the Values of the command named sel unset, the other
\* commands as they are
SelectedCleared(reg, sel) ==
    [b \in DOMAIN reg |->
       [reg[b] EXCEPT !.Commands =
          [c \in DOMAIN reg[b].Commands |->
             IF b = sCrn /\ c = sel
             THEN ValuesCleared(reg[b].Commands[c])
             ELSE reg[b].Commands[c]]]]

\* C16: a Parse call changes nothing but the Value fields of the selected
\* command's Flags and Args: every step of a call leaves the caller's
\* argument vector, the key sets of Flags, shorthandFlags and Args, the
\* ArgNames order, every other field of every flag and argument, and every
\* other command as they were.
C16_ParseChangesOnlyValues ==
    [][/\ args' = args
       /\ DOMAIN registry' = DOMAIN registry
       /\ IF Len(args) = 0
          THEN registry' = registry
          ELSE SelectedCleared(registry', args[1])
                  = SelectedCleared(registry, args[1])]_vars

\* the call has written a Value of the selected command
C16_Witness ==
    /\ pc = "loop"
    /\ SelectorRegistered
    /\ \E a \in DOMAIN Selected.Args : Selected.Args[a].Value # Empty
    /\ \E c \in DOMAIN Entry.Commands : c # args[1]

\* the tokens a comma-joined Arg.Value holds
TokensOf(value) ==
    IF value = Empty THEN {}
    ELSE {Split(value, ",")[i] : i \in 1..Len(Split(value, ","))}

\* C19: the command selector at position 0 only selects the command: when
\* no later token equals it, no Arg.Value of any command is the selector or
\* holds it as one of its comma-joined tokens, at any point of a Parse call.
C19_SelectorNeverAssigned ==
    (/\ Len(args) > 0
     /\ args[1] # Empty
     /\ \A i \in 2..Len(args) : args[i] # args[1])
    => \A cmd \in AllCommands(registry) :
          \A a \in DOMAIN cmd.Args :
             args[1] \notin TokensOf(cmd.Args[a].Value)

\* argument a of cmd is its last declared argument and is variadic
VariadicLast(cmd, a) ==
    /\ cmd.ArgNames # <<>>
    /\ cmd.ArgNames[Len(cmd.ArgNames)] = a
    /\ cmd.Args[a].IsVariadic

\* C20: during a Parse call a non-empty Value of a non-variadic argument is
\* never changed by a later token, and a non-empty Value of a variadic last
\* argument changes only by having "," and a token appended to it.
C20_AssignedValuesKept ==
    [][\A b \in DOMAIN registry : \A c \in DOMAIN registry[b].Commands :
          LET cmd == registry[b].Commands[c]
              cmdNew == registry'[b].Commands[c]
          IN \A a \in DOMAIN cmd.Args :
                cmd.Args[a].Value # Empty
                   => \/ cmdNew.Args[a].Value = cmd.Args[a].Value
                      \/ /\ VariadicLast(cmd, a)
                         /\ \E i \in 1..Len(formattedArguments) :
                               cmdNew.Args[a].Value
                                  = cmd.Args[a].Value \o <<",">>
                                       \o formattedArguments[i]]_vars

\* two declared arguments, the first set and the variadic last one grown
C20_Witness ==
    /\ pc = "loop"
    /\ SelectorRegistered
    /\ Len(Selected.ArgNames) = 2
    /\ Selected.Args[Selected.ArgNames[1]].Value = args[1]
    /\ ~Selected.Args[Selected.ArgNames[1]].IsVariadic
    /\ VariadicLast(Selected, Selected.ArgNames[2])
    /\ Len(Split(Selected.Args[Selected.ArgNames[2]].Value, ",")) >= 2

----------------------------------------------------------------------------
(* Claims about registration, checked under SpecReg. *)

\* the addresses of the objects the registry stores
StoredRefs(reg) ==
    {reg[b].ref : b \in DOMAIN reg}
      \cup UNION {UNION {
              {reg[b].Commands[c].Flags[f].ref :
                  f \in DOMAIN reg[b].Commands[c].Flags}
                \cup {reg[b].Commands[c].Args[a].ref :
                        a \in DOMAIN reg[b].Commands[c].Args}
              : c \in DOMAIN reg[b].Commands} : b \in DOMAIN reg}

NoRepeatedArgName(reg) ==
    \A b \in DOMAIN reg : \A c \in DOMAIN reg[b].Commands :
       LET names == reg[b].Commands[c].ArgNames
       IN \A i, j \in 1..Len(names) : names[i] = names[j] => i = j

\* the object the last first-time registration allocated and stored
NewestStored == nextRef - 1

\* C9: a Register, AddFlag or AddArg call for a sanitized name already
\* present reports true, changes nothing and returns the stored object;
\* when it repeats the registration made by the call just before it, that
\* is the object the first registration returned; ArgNames never holds a
\* name twice.
C9_RegistrationIdempotent ==
    [][/\ (ret'.op \in {"Register", "AddFlag", "AddArg"} /\ ret'.existed)
          => /\ registry' = registry
             /\ ret'.ptr \in StoredRefs(registry)
             /\ (ret.op = ret'.op /\ ~ret.existed /\ ret'.ptr = NewestStored)
                   => ret'.ptr = ret.ptr
       /\ NoRepeatedArgName(registry')]_vars

\* C11: after any sequence of AddArg calls at most one Arg of a command has
\* IsVariadic set, and if one has, it is the last name of ArgNames.
C11_VariadicOnlyLast ==
    \A cmd \in AllCommands(registry) :
       /\ Cardinality({a \in DOMAIN cmd.Args : cmd.Args[a].IsVariadic}) <= 1
       /\ \A i \in 1..Len(cmd.ArgNames) :
             cmd.Args[cmd.ArgNames[i]].IsVariadic => i = Len(cmd.ArgNames)

\* C12: after any sequence of AddFlag calls no two flags of a command have
\* the same non-empty ShortName, and shorthandFlags maps the ShortName of
\* every flag that has one to that flag's Name.
C12_ShorthandsUnique ==
    \A cmd \in AllCommands(registry) :
       /\ \A f, g \in DOMAIN cmd.Flags :
             (cmd.Flags[f].ShortName # Empty
                /\ cmd.Flags[f].ShortName = cmd.Flags[g].ShortName) => f = g
       /\ \A f \in DOMAIN cmd.Flags :
             cmd.Flags[f].ShortName # Empty
                => /\ Has(cmd.shorthandFlags, cmd.Flags[f].ShortName)
                   /\ cmd.shorthandFlags[cmd.Flags[f].ShortName]
                        = cmd.Flags[f].Name

\* C17: the inverted prefix is removed as a literal prefix: AddFlag of a
\* boolean flag named "no-" + X stores it under the key X, so every stored
\* inverted flag has the key X of some declaration named "no-" + X
\* (isInvertedFlag is to return (true, X) for "--no-" + X the same way).
C17_InvertedKeyIsLiteralRemainder ==
    \A cmd \in AllCommands(registry) :
       \A f \in DOMAIN cmd.Flags :
          cmd.Flags[f].IsInverted
             => /\ cmd.Flags[f].Name = f
                /\ \E d \in FlagDecls :
                      /\ d.IsBoolean
                      /\ d.Name = <<"n", "o", "-">> \o f

\* what holds of every stored flag whatever its kind
FlagKindsWellFormed(flag) ==
    /\ flag.IsInverted => /\ flag.IsBoolean
                          /\ flag.ShortName = Empty
                          /\ flag.Default = <<"t", "r", "u", "e">>
    /\ (flag.IsBoolean /\ ~flag.IsInverted)
          => flag.Default = <<"f", "a", "l", "s", "e">>
    /\ Len(flag.ShortName) \in {0, 1}

\* the value-taking declarations stored under the name of flag
DeclaredAs(flag) ==
    {d \in FlagDecls : ~d.IsBoolean /\ removeWhitespaces(d.Name) = flag.Name}

\* C18 as stated: after any AddFlag calls every stored flag has IsInverted
\* only with IsBoolean, no ShortName and Default "true"; a boolean flag not
\* inverted has Default "false"; a value-taking flag has the Default that
\* was declared; every ShortName has length 0 or 1.
C18_DefaultAsDeclared ==
    \A cmd \in AllCommands(registry) :
       \A f \in DOMAIN cmd.Flags :
          /\ FlagKindsWellFormed(cmd.Flags[f])
          /\ ~cmd.Flags[f].IsBoolean
                => \E d \in DeclaredAs(cmd.Flags[f]) :
                      cmd.Flags[f].Default = d.Default

\* C18 amended: the same, except that a value-taking flag's Default is the
\* declared default with every space removed.
C18_DefaultSanitized ==
    \A cmd \in AllCommands(registry) :
       \A f \in DOMAIN cmd.Flags :
          /\ FlagKindsWellFormed(cmd.Flags[f])
          /\ ~cmd.Flags[f].IsBoolean
                => \E d \in DeclaredAs(cmd.Flags[f]) :
                      cmd.Flags[f].Default = removeWhitespaces(d.Default)

\* a command holds a value-taking flag declared with a space in its default
\* next to an inverted flag declared with a shorthand
C18_Witness ==
    \E cmd \in AllCommands(registry) :
       /\ \E f \in DOMAIN cmd.Flags :
             /\ ~cmd.Flags[f].IsBoolean
             /\ cmd.Flags[f].Default = <<"d", "d">>
       /\ \E f \in DOMAIN cmd.Flags :
             /\ cmd.Flags[f].IsInverted
             /\ cmd.Flags[f].Name = sVb

----------------------------------------------------------------------------
(* Claims about the token classifiers, checked under SpecTok. *)

\* C10: isUnsupportedFlag(t) is true exactly when len(t) = 2 and t does not
\* start with "-" or starts with "--", or len(t) > 2 and t does not start
\* with "--" or starts with "---"; it is false for every shorter token; -g
\* and --good are supported, and --, ---g and -good are not.
C10_UnsupportedFlagShape ==
    out.fn = "isUnsupportedFlag"
    => LET n == Len(tok)
           dashes(k) == n >= k /\ \A i \in 1..k : tok[i] = "-"
       IN /\ out.ok <=> \/ n = 2 /\ (~dashes(1) \/ dashes(2))
                        \/ n > 2 /\ (~dashes(2) \/ dashes(3))
          /\ n < 2 => ~out.ok
          /\ tok \in {<<"-", "g">>, <<"-", "-", "g", "o", "o", "d">>}
                => ~out.ok
          /\ tok \in {<<"-", "-">>, <<"-", "-", "-", "g">>,
                      <<"-", "g", "o", "o", "d">>} => out.ok

C10_Witness ==
    /\ out.fn = "isUnsupportedFlag"
    /\ tok = <<"-", "-", "-", "g">>
    /\ out.ok

====
